---- MODULE Spec2Model ----
(***************************************************************************)
(* Model of the bid monitor of coomaso/zhongbiao: the ingestion cycle,    *)
(* bulk re-extraction and notification of BidMonitor (src/houxuan.py and  *)
(* its variant src/main.py), and the extraction cascade of                *)
(* houxuan.py's _parse_html_content.                                      *)
(*                                                                         *)
(* Text is modelled by tokens.  A token stands for one cell text of the   *)
(* markup; the substring and regular-expression tests of the code are     *)
(* operators over tokens, defined by the texts the tokens stand for:      *)
(*   H_NAME  zhong biao hou xuan ren ming cheng (header, 7 characters)    *)
(*   H_RANK  ming ci (header, 2 characters)                               *)
(*   H_PRICE tou biao bao jia (price label, 4 characters)                 *)
(*   R1, R2  di yi ming, di er ming (rank texts, 3 characters)            *)
(*   CO_A    jia jian she ji tuan you xian gong si (9 characters)         *)
(*   CO_B    yi gong cheng you xian gong si (7 characters)                *)
(*   CO_C    bing zi xun you xian gong si (7 characters)                  *)
(*   INST    ding she ji yuan (4 characters)                              *)
(*   AGENT   zhao biao dai li ji gou: (label with colon, 7 characters)    *)
(*   P1, P2  100 wan yuan, 98% (price texts)                              *)
(*   SLASH   "/"        EMPTY  ""                                         *)
(* A keyword test on a row's text is the test on its cells: a keyword     *)
(* that only forms across a cell boundary is outside the model.           *)
(***************************************************************************)
EXTENDS Naturals, Sequences, FiniteSets, TLC

VARIABLES
  variant,           \* which file's BidMonitor runs: "houxuan" or "main"
  rawStore,          \* contents of original_file (hx.json / zb.json)
  parsedStore,       \* contents of parsed_file (hx_parsed.json / parsed.json)
  latest_new_count,  \* BidMonitor.latest_new_count (houxuan.py only)
  pc,                \* position in the __main__ block: "start", "notify" or "done"
  lastOp,            \* the operation this run of __main__ ran last ("none" at start)
  fetched,           \* what fetch_latest_data returned in this run
  new_items,         \* new_items of this run's cycle
  ret,               \* return value of this run's process_and_store_data
  faults,            \* persistence faults that happened in this run
  sent,              \* records this run's send_notifications handed to _build_message
  nfaults,           \* persistence faults that have happened in all runs so far
  wasAligned,        \* before this run's operation parsedStore held one record per
                     \* rawStore document, in rawStore's order
  xItem,             \* extraction: the item given to _parse_html_content
  xStage,            \* extraction: position inside _parse_html_content
  xBap,              \* extraction: bidders_and_prices so far
  xTable,            \* extraction: what method 1 (the header table) produced
  xResult            \* extraction: the returned record

storeVars == <<variant, rawStore, parsedStore, latest_new_count, pc, lastOp,
               fetched, new_items, ret, faults, sent, nfaults,
               wasAligned>>
extractVars == <<xItem, xStage, xBap, xTable, xResult>>
vars == <<variant, rawStore, parsedStore, latest_new_count, pc, lastOp,
          fetched, new_items, ret, faults, sent, nfaults, wasAligned,
          xItem, xStage, xBap, xTable, xResult>>

(***************************************************************************)
(* Bounds of the model.                                                    *)
(***************************************************************************)
MaxBatch == 2     \* longest fetched batch
MaxStore == 2     \* longest store a cycle may produce
MaxFaults == 1    \* most persistence faults in one behaviour
MaxRows == 3      \* most rows of the first table of an extracted document

\* self.page_size of main.py, read by its send_notifications
page_size == 6

(***************************************************************************)
(* Sequence helpers (Python list operations).                              *)
(***************************************************************************)
Range(s) == {s[i] : i \in 1..Len(s)}

\* s[-n:] of Python for n >= 1: the last n entries, all of s when n > len(s)
LastN(s, n) == IF n >= Len(s) THEN s ELSE SubSeq(s, Len(s) - n + 1, Len(s))

IsPrefix(s, t) == Len(s) <= Len(t) /\ SubSeq(t, 1, Len(s)) = s

RECURSIVE SeqsUpTo(_, _)
SeqsUpTo(S, n) ==
  IF n = 0 THEN {<<>>}
  ELSE LET shorter == SeqsUpTo(S, n - 1)
       IN shorter \cup {Append(s, x) : s \in {t \in shorter : Len(t) = n - 1}, x \in S}

\* [c for c in s if c not already seen], first occurrences kept in order
RECURSIVE Dedup(_)
Dedup(s) ==
  IF s = <<>> THEN <<>>
  ELSE LET front == Dedup(SubSeq(s, 1, Len(s) - 1))
           x == s[Len(s)]
       IN IF x \in Range(front) THEN front ELSE Append(front, x)

(***************************************************************************)
(* Text tests of _parse_html_content (houxuan.py) over tokens.             *)
(***************************************************************************)
\* any(keyword in row_text for keyword in [...ming cheng, dan wei ming cheng, ming ci])
HasHeaderKeyword(t) == t \in {"H_NAME", "H_RANK"}
HasMingci(t) == t = "H_RANK"
HasFirstPlace(t) == t = "R1"
\* re.match(r'^di[...]+ming?$', text)
IsRankText(t) == t \in {"R1", "R2"}
\* "gong si" in text or "ji tuan" in text or "you xian" in text or "she ji yuan" in text
IsCandidateText(t) == t \in {"CO_A", "CO_B", "CO_C", "INST"}
\* ("gong si" in text or "ji tuan" in text or "you xian" in text)
HasCompanyWord3(t) == t \in {"CO_A", "CO_B", "CO_C"}
\* ("gong si" in text or "ji tuan" in text)
HasCompanyWord2(t) == t \in {"CO_A", "CO_B", "CO_C"}
\* any(keyword in next_row.get_text() for keyword in [tou biao bao jia, bao jia, ...])
HasPriceKeyword(t) == t = "H_PRICE"
\* len(text)
PyLen(t) ==
  CASE t = "H_NAME" -> 7
    [] t = "H_RANK" -> 2
    [] t = "H_PRICE" -> 4
    [] t \in {"R1", "R2"} -> 3
    [] t = "CO_A" -> 9
    [] t \in {"CO_B", "CO_C"} -> 7
    [] t = "INST" -> 4
    [] t = "AGENT" -> 7
    [] t = "P1" -> 5
    [] t = "P2" -> 3
    [] t = "SLASH" -> 1
    [] OTHER -> 0

NotProvided == "NOT_PROVIDED"   \* the price text "wei ti gong"

\* the keyword tests on the text of a row
RowHasHeaderKeyword(row) == \E i \in 1..Len(row) : HasHeaderKeyword(row[i])
RowHasMingci(row) == \E i \in 1..Len(row) : HasMingci(row[i])
RowHasPriceKeyword(row) == \E i \in 1..Len(row) : HasPriceKeyword(row[i])

Pair(b, p) == [bidder |-> b, price |-> p]

\* for i, candidate in enumerate(candidates):
\*     price = prices[i] if i < len(prices) else "wei ti gong"
PairUp(candidates, prices) ==
  [i \in 1..Len(candidates) |->
     Pair(candidates[i], IF i <= Len(prices) THEN prices[i] ELSE NotProvided)]

\* row[start_col:] of the code's range(start_col, len(cells)), 0-based start_col
CellsFrom(row, start_col) == SubSeq(row, start_col + 1, Len(row))
(***************************************************************************)
(* _parse_html_content of houxuan.py.  An item's infocontent is           *)
(*   [tables |-> sequence of tables, each a sequence of rows, each a      *)
(*               sequence of cell tokens,                                  *)
(*    pub    |-> what the publicity-period patterns find in full_text,    *)
(*    text   |-> what the patterns of method 2 find in review_section]    *)
(***************************************************************************)
NoBap == [exc |-> FALSE, bap |-> <<>>]
Raised == [exc |-> TRUE, bap |-> <<>>]

\* houxuan.py 192-207: start_col and the candidates read from candidate_row;
\* candidate_cells[0] of a row without cells raises IndexError
HeaderCandidates(row, candidate_row) ==
  LET mingci == RowHasMingci(row)
      start_col == IF mingci \/ (Len(candidate_row) > 0 /\ HasFirstPlace(candidate_row[1]))
                   THEN 1 ELSE 0
      keep(t) == t # "EMPTY" /\ PyLen(t) > 1 /\ ~IsRankText(t) /\ IsCandidateText(t)
  IN [exc |-> ~mingci /\ Len(candidate_row) = 0,
      start_col |-> start_col,
      candidates |-> SelectSeq(CellsFrom(candidate_row, start_col), keep)]

\* houxuan.py 217-225: the prices read from price_row
PriceCells(price_row, start_col) ==
  LET keep(t) == t # "EMPTY" /\ t # "SLASH" /\ ~IsRankText(t)
  IN SelectSeq(CellsFrom(price_row, start_col), keep)

\* houxuan.py 184-233: the body run for a row that holds a header keyword
HeaderRow(rows, i) ==
  LET row == rows[i]
      hasCandidateRow == Len(row) >= 3 \/ i < Len(rows)
      candidate_row == IF Len(row) < 3 THEN rows[i + 1] ELSE row
      priceRows == {j \in (i + 1)..Len(rows) : RowHasPriceKeyword(rows[j])}
  IN IF ~hasCandidateRow THEN NoBap
     ELSE LET hc == HeaderCandidates(row, candidate_row)
          IN IF hc.exc THEN Raised
             ELSE IF priceRows = {} THEN NoBap
             ELSE LET price_row == rows[CHOOSE j \in priceRows : \A k \in priceRows : j <= k]
                  IN [exc |-> FALSE,
                      bap |-> PairUp(hc.candidates, PriceCells(price_row, hc.start_col))]

\* houxuan.py 181-237: the loop over the rows of one table, from row i on
RECURSIVE Method1Rows(_, _)
Method1Rows(rows, i) ==
  IF i > Len(rows) THEN NoBap
  ELSE IF ~RowHasHeaderKeyword(rows[i]) THEN Method1Rows(rows, i + 1)
  ELSE LET r == HeaderRow(rows, i)
       IN IF r.exc \/ r.bap # <<>> THEN r ELSE Method1Rows(rows, i + 1)

\* houxuan.py 178-239: method 1, the loop over the tables from table k on;
\* it ends at the first table that holds a header row
RECURSIVE Method1Tables(_, _)
Method1Tables(tables, k) ==
  IF k > Len(tables) THEN NoBap
  ELSE LET r == Method1Rows(tables[k], 1)
           header_found == \E i \in 1..Len(tables[k]) : RowHasHeaderKeyword(tables[k][i])
       IN IF r.exc \/ header_found THEN r ELSE Method1Tables(tables, k + 1)

Method1(html) == Method1Tables(html.tables, 1)

\* every cell of every row of the document, in document order
RECURSIVE Flatten(_)
Flatten(ss) == IF ss = <<>> THEN <<>> ELSE Head(ss) \o Flatten(Tail(ss))

AllCells(html) == Flatten(Flatten(html.tables))

\* houxuan.py 289-296: pattern 4, the company cells of all rows
TableCandidates(html) ==
  LET keep(t) == HasCompanyWord3(t) /\ PyLen(t) > 5
  IN Dedup(SelectSeq(AllCells(html), keep))

\* houxuan.py 260-306: the candidates of method 2
TextCandidates(html) ==
  LET x == html.text
  IN IF x.ranked # <<>> THEN x.ranked
     ELSE IF x.named.hit THEN x.named.names
     ELSE IF x.unordered.hit THEN x.unordered.names
     ELSE IF TableCandidates(html) # <<>> THEN TableCandidates(html)
     ELSE Dedup(x.companies)

\* houxuan.py 308-329: the prices of method 2
TextPrices(html) ==
  LET x == html.text
  IN IF x.labelled.hit THEN x.labelled.values
     ELSE IF x.rates # <<>> THEN x.rates
     ELSE x.amounts

\* houxuan.py 241-337: method 2, run when method 1 left bidders_and_prices empty
Method2(html, bap) ==
  IF bap # <<>> THEN bap
  ELSE PairUp(TextCandidates(html), TextPrices(html))

\* houxuan.py 342-349: all_companies
AllCompanies(html) ==
  LET keep(t) == HasCompanyWord2(t) /\ PyLen(t) > 5
  IN Dedup(SelectSeq(AllCells(html), keep))

\* houxuan.py 339-359: the supplement to at least 3 candidates
Supplement(html, bap) ==
  LET all_companies == AllCompanies(html)
  IN IF Len(bap) < 3 /\ Len(all_companies) > Len(bap)
     THEN bap \o [i \in 1..(Len(all_companies) - Len(bap)) |->
                    Pair(all_companies[Len(bap) + i], NotProvided)]
     ELSE bap

\* houxuan.py 152: customtitle.replace("zhong biao hou xuan ren gong shi", "").strip()
StripTitle(t) == IF t = "TITLE_GONGSHI" THEN "TITLE" ELSE t

\* houxuan.py 33, 362-363
base_url == "https://ggzy.sc.yichang.gov.cn"
IsPath(u) == u \in {"/u1", "/u2", "/u3"}
FullUrl(infourl) == IF IsPath(infourl) THEN <<base_url, infourl>> ELSE <<infourl>>

\* houxuan.py 365-370
Record(data, bap) ==
  [project_name |-> IF StripTitle(data.customtitle) = "" THEN "UNKNOWN"
                    ELSE StripTitle(data.customtitle),
   publicity_period |-> data.infocontent.pub,
   bidders_and_prices |-> bap,
   full_url |-> FullUrl(data.infourl)]

\* houxuan.py 372-380: what the except branch returns
FailureRecord(data) ==
  [project_name |-> IF StripTitle(data.customtitle) = "" THEN "PARSE_FAILED"
                    ELSE StripTitle(data.customtitle),
   publicity_period |-> "",
   bidders_and_prices |-> <<Pair("PARSE_FAILED", "SEE_DETAILS")>>,
   full_url |-> <<>>]

\* houxuan.py 148-380
ParseHouxuan(data) ==
  LET m1 == Method1(data.infocontent)
  IN IF m1.exc THEN FailureRecord(data)
     ELSE Record(data, Supplement(data.infocontent, Method2(data.infocontent, m1.bap)))

(***************************************************************************)
(* _parse_html_content of main.py: the key/value pairs of the first table.*)
(***************************************************************************)
\* main.py 166-168: re.sub(r'[:\s]', '', text).strip(); AGENT ends in a colon
_clean_key(t) == IF t = "AGENT" THEN "AGENT_KEY" ELSE t

Put(result, key, value) ==
  [k \in DOMAIN result \cup {key} |-> IF k = key THEN value ELSE result[k]]

\* main.py 154-164
_process_table_row(columns, result) ==
  LET first == IF Len(columns) >= 2
               THEN Put(result, _clean_key(columns[1]), columns[2]) ELSE result
  IN IF Len(columns) >= 4
     THEN Put(first, _clean_key(columns[3]), columns[4]) ELSE first

RECURSIVE ProcessRows(_, _, _)
ProcessRows(rows, i, result) ==
  IF i > Len(rows) THEN result
  ELSE ProcessRows(rows, i + 1, _process_table_row(rows[i], result))

\* main.py 137-152
ParseMain(html) ==
  IF html.tables = <<>> THEN <<>>
  ELSE ProcessRows(html.tables[1], 1, <<>>)

\* the call self._parse_html_content(...) of process_and_store_data and of
\* reparse_all_data: houxuan.py 136 and 73 pass the item, main.py 102 and 34
\* its infocontent
_parse_html_content(v, item) ==
  IF v = "houxuan" THEN ParseHouxuan(item) ELSE ParseMain(item.infocontent)
(***************************************************************************)
(* The feed.  An item of the feed is [infoid, infourl, customtitle,        *)
(* infocontent]; title and infodate are copied to raw_data unread and are *)
(* left out.  The page behind an infourl fixes customtitle and            *)
(* infocontent, so the stores hold an item as [infoid, infourl] and       *)
(* Data gives the item in full.                                           *)
(***************************************************************************)
\* three items of distinct identity, and one that shares its infoid with the
\* first and its infourl with the second
Identities == {<<"id1", "/u1">>, <<"id2", "/u2">>, <<"id3", "/u3">>, <<"id1", "/u2">>}

NoText == [ranked |-> <<>>, named |-> [hit |-> FALSE, names |-> <<>>],
           unordered |-> [hit |-> FALSE, names |-> <<>>], companies |-> <<>>,
           labelled |-> [hit |-> FALSE, values |-> <<>>], rates |-> <<>>,
           amounts |-> <<>>]

\* a header row with its candidates, a price row, and the agent's row
TableOk == << <<"H_NAME", "CO_A", "CO_B">>, <<"H_PRICE", "P1", "P2">>,
              <<"AGENT", "CO_C">> >>
\* a short header row followed by a row without cells
TableBad == << <<"H_NAME">>, <<>>, <<"H_PRICE", "P1">> >>

PageAt(u) ==
  IF u = "/u2"
  THEN [customtitle |-> "", infocontent |-> [tables |-> <<TableBad>>, pub |-> "", text |-> NoText]]
  ELSE [customtitle |-> "TITLE_GONGSHI",
        infocontent |-> [tables |-> <<TableOk>>, pub |-> "PERIOD", text |-> NoText]]

Item(i, u) == [infoid |-> i, infourl |-> u]

Items == {Item(x[1], x[2]) : x \in Identities}

\* the item as the feed delivers it and as original_file holds it
Data(item) ==
  [infoid |-> item.infoid, infourl |-> item.infourl,
   customtitle |-> PageAt(item.infourl).customtitle,
   infocontent |-> PageAt(item.infourl).infocontent]

\* parsed_data of every item of the feed, for each file
ParsedData ==
  [v \in {"houxuan", "main"} |-> [item \in Items |-> _parse_html_content(v, Data(item))]]

\* what fetch_latest_data may return (the empty list when every attempt failed)
Batches == SeqsUpTo(Items, MaxBatch)

(***************************************************************************)
(* Persistence.  A store is what a load of its file without a fault       *)
(* returns.  A fault in a load or a save is caught inside the helper: the *)
(* load returns [] and the save returns normally.  A save fails either in *)
(* open(filename, 'w'), which leaves the file as it is, or in json.dump   *)
(* after open has truncated the file, which leaves text that json.load    *)
(* rejects, so that later loads return [].                                *)
(***************************************************************************)
_load_json_file(file, fault) == IF fault THEN <<>> ELSE file

_save_json_file(file, data, fault) ==
  CASE fault = "open" -> file
    [] fault = "write" -> <<>>
    [] OTHER -> data

\* how the save of a store fails under the faults F
SaveFault(F, open, write) ==
  IF open \in F THEN "open" ELSE IF write \in F THEN "write" ELSE "none"

\* a faulty test that compares the infoid only; C2 tells it from the code's
_is_existing_record_ById(new_item, existing) ==
  \E k \in 1..Len(existing) : existing[k].infoid = new_item.infoid

_is_existing_record(new_item, existing) ==
  \E k \in 1..Len(existing) :
    existing[k].infoid = new_item.infoid \/ existing[k].infourl = new_item.infourl

\* a faulty filter that keeps every fetched document; C1 tells it from the code's
NewItems_NoFilter(new_raw_data, existing_raw) == new_raw_data

\* new_items = [item for item in new_raw_data if not self._is_existing_record(item, existing_raw)]
NewItems(new_raw_data, existing_raw) ==
  SelectSeq(new_raw_data, LAMBDA item : ~_is_existing_record(item, existing_raw))

\* a faulty record that does not carry the infourl of its document; C16 tells
\* it from the code's
ParsedRecord_WithoutUrl(v, item) ==
  [infoid |-> item.infoid, infourl |-> "", parsed_data |-> ParsedData[v][item]]

\* parsed_record of process_and_store_data and reparse_all_data
ParsedRecord(v, item) ==
  [infoid |-> item.infoid, infourl |-> item.infourl,
   parsed_data |-> ParsedData[v][item]]

\* the extraction of the item raises inside _parse_html_content (houxuan.py)
ExtractionFaults(item) == Method1(Data(item).infocontent).exc

\* a faulty loop that a fault of one extraction ends; C12 tells it from the code's
AppendParsed_AbortOnFault(v, parsed_data, items) ==
  LET bad == {k \in 1..Len(items) : v = "houxuan" /\ ExtractionFaults(items[k])}
      n == IF bad = {} THEN Len(items)
           ELSE (CHOOSE k \in bad : \A j \in bad : k <= j) - 1
  IN parsed_data \o [k \in 1..n |-> ParsedRecord(v, items[k])]

\* a faulty loop that appends the records in reverse; C3 tells it from the code's
AppendParsed_Reversed(v, parsed_data, items) ==
  parsed_data \o [k \in 1..Len(items) |-> ParsedRecord(v, items[Len(items) + 1 - k])]

\* the loop "for item in ...: parsed_data.append(parsed_record)"
AppendParsed(v, parsed_data, items) ==
  parsed_data \o [k \in 1..Len(items) |-> ParsedRecord(v, items[k])]

IdsOf(s) == [k \in 1..Len(s) |-> s[k].infoid]

Aligned == IdsOf(parsedStore) = IdsOf(rawStore)

ExtractIdle ==
  /\ xItem = "none" /\ xStage = "idle" /\ xBap = <<>> /\ xTable = <<>>
  /\ xResult = "none"

\* BidMonitor.__init__ and the locals of the __main__ block before it runs
FreshRun ==
  /\ latest_new_count = 0
  /\ pc = "start"
  /\ lastOp = "none"
  /\ fetched = <<>>
  /\ new_items = <<>>
  /\ ret = 0
  /\ faults = {}
  /\ sent = <<>>
  /\ wasAligned = TRUE

\* the state before the first run of file v: no store file exists
InitOf(v) ==
  /\ variant = v
  /\ rawStore = <<>>
  /\ parsedStore = <<>>
  /\ nfaults = 0
  /\ FreshRun

Init == InitOf("houxuan") /\ ExtractIdle

ProcessFaults ==
  {"load_raw", "save_raw", "write_raw", "load_parsed", "save_parsed", "write_parsed"}

\* process_and_store_data of file v on the stores raw and parsed, when
\* fetch_latest_data returned new_raw_data and the faults F strike: the stores
\* it leaves, new_items, the value returned, and the loads and saves reached
Cycle(v, raw, parsed, new_raw_data, F) ==
  LET existing_raw == _load_json_file(raw, "load_raw" \in F)
      items == NewItems(new_raw_data, existing_raw)
      updated_raw == existing_raw \o items
      parsed_data == AppendParsed(v, _load_json_file(parsed, "load_parsed" \in F), items)
  IN IF new_raw_data = <<>>
     THEN [raw |-> raw, parsed |-> parsed, new_items |-> <<>>, ret |-> 0, reached |-> {}]
     ELSE IF items = <<>>
     THEN [raw |-> raw, parsed |-> parsed, new_items |-> <<>>, ret |-> 0,
           reached |-> {"load_raw"}]
     ELSE [raw |-> _save_json_file(raw, updated_raw, SaveFault(F, "save_raw", "write_raw")),
           parsed |-> _save_json_file(parsed, parsed_data,
                                      SaveFault(F, "save_parsed", "write_parsed")),
           new_items |-> items, ret |-> Len(items), reached |-> ProcessFaults]

\* the __main__ block without --reparse-all: monitor.process_and_store_data()
process_and_store_data(new_raw_data, F) ==
  LET o == Cycle(variant, rawStore, parsedStore, new_raw_data, F)
  IN /\ pc = "start"
     /\ F \subseteq o.reached
     /\ Len(o.raw) <= MaxStore
     /\ Len(o.parsed) <= MaxStore
     /\ lastOp' = "process"
     /\ fetched' = new_raw_data
     /\ new_items' = o.new_items
     /\ rawStore' = o.raw
     /\ parsedStore' = o.parsed
     /\ ret' = o.ret
     /\ latest_new_count' = IF variant = "houxuan" /\ o.ret > 0 THEN o.ret
                            ELSE latest_new_count
     /\ pc' = IF o.ret > 0 THEN "notify" ELSE "done"
     /\ faults' = F
     /\ nfaults' = nfaults + Cardinality(F)
     /\ wasAligned' = Aligned
     /\ UNCHANGED <<variant, sent>>
     /\ UNCHANGED extractVars

\* parsed_data[-n:] handed record by record to _build_message
Handed(parsed_data, n) == IF n <= 0 THEN <<>> ELSE LastN(parsed_data, n)

\* houxuan.py 479-488
send_notifications_houxuan(parsed_data) ==
  IF latest_new_count <= 0 THEN <<>> ELSE Handed(parsed_data, latest_new_count)

\* main.py 113-124
send_notifications_main(parsed_data) ==
  IF parsed_data = <<>> THEN <<>>
  ELSE Handed(parsed_data, IF Len(parsed_data) < page_size THEN Len(parsed_data) ELSE page_size)

\* the __main__ block after a cycle with new_count > 0: monitor.send_notifications()
send_notifications(F) ==
  LET parsed_data == _load_json_file(parsedStore, "load_parsed" \in F)
      latest_parsed == IF variant = "houxuan" THEN send_notifications_houxuan(parsed_data)
                       ELSE send_notifications_main(parsed_data)
  IN /\ pc = "notify"
     /\ pc' = "done"
     /\ lastOp' = "notify"
     /\ faults' = faults \cup F
     /\ nfaults' = nfaults + Cardinality(F)
     /\ sent' = latest_parsed
     /\ UNCHANGED <<variant, rawStore, parsedStore, latest_new_count, fetched, new_items,
                    ret, wasAligned>>
     /\ UNCHANGED extractVars

\* a faulty re-extraction that appends to what parsedStore holds; C4 tells it
\* from the code's
Reparsed_Appending(v, original_data) == AppendParsed(v, parsedStore, original_data)

\* the records reparse_all_data builds from original_data
Reparsed(v, original_data) == AppendParsed(v, <<>>, original_data)

\* the __main__ block under --reparse-all: monitor.reparse_all_data()
reparse_all_data(F) ==
  LET original_data == _load_json_file(rawStore, "load_raw" \in F)
  IN /\ pc = "start"
     /\ pc' = "done"
     /\ lastOp' = "reparse"
     /\ faults' = F
     /\ nfaults' = nfaults + Cardinality(F)
     /\ parsedStore' = _save_json_file(parsedStore, Reparsed(variant, original_data),
                                       SaveFault(F, "save_parsed", "write_parsed"))
     /\ wasAligned' = Aligned
     /\ UNCHANGED <<variant, rawStore, latest_new_count, fetched, new_items, ret, sent>>
     /\ UNCHANGED extractVars

\* the __main__ block ends; the next run starts on a new BidMonitor
Exit ==
  /\ pc = "done"
  /\ latest_new_count' = 0
  /\ pc' = "start"
  /\ lastOp' = "none"
  /\ fetched' = <<>>
  /\ new_items' = <<>>
  /\ ret' = 0
  /\ faults' = {}
  /\ sent' = <<>>
  /\ wasAligned' = TRUE
  /\ UNCHANGED <<variant, rawStore, parsedStore, nfaults>>
  /\ UNCHANGED extractVars

\* the faults that may strike an operation with the loads and saves P
FaultSets(P) ==
  {F \in SUBSET P : /\ nfaults + Cardinality(F) <= MaxFaults
                    /\ ~({"save_raw", "write_raw"} \subseteq F)
                    /\ ~({"save_parsed", "write_parsed"} \subseteq F)}

Process == \E b \in Batches, F \in FaultSets(ProcessFaults) : process_and_store_data(b, F)
Notify == \E F \in FaultSets({"load_parsed"}) : send_notifications(F)
Reparse ==
  \E F \in FaultSets({"load_raw", "save_parsed", "write_parsed"}) : reparse_all_data(F)

Next == Process \/ Notify \/ Reparse \/ Exit

\* the runs of houxuan.py
Spec == Init /\ [][Next]_vars

\* the runs of main.py
InitMain == InitOf("main") /\ ExtractIdle
SpecMain == InitMain /\ [][Next]_vars

TypeOK ==
  /\ variant \in {"houxuan", "main"}
  /\ pc \in {"start", "notify", "done"}
  /\ Range(rawStore) \subseteq Items
  /\ Len(rawStore) <= MaxStore /\ Len(parsedStore) <= MaxStore
  /\ latest_new_count \in 0..MaxBatch
  /\ ret \in 0..MaxBatch
  /\ nfaults \in 0..MaxFaults
(***************************************************************************)
(* Properties of the ingestion cycle, bulk re-extraction and notification.*)
(***************************************************************************)
\* a step of process_and_store_data
ProcessStep == pc = "start" /\ lastOp' = "process"

\* C1: when a cycle has run without a persistence fault, running the cycle
\* again on the same batch, again without a fault, returns 0 and leaves
\* rawStore and parsedStore as the first cycle left them.
C1_IdempotentDedup ==
  (lastOp = "process" /\ faults = {})
    => LET second == Cycle(variant, rawStore, parsedStore, fetched, {})
       IN second.ret = 0 /\ second.raw = rawStore /\ second.parsed = parsedStore

\* C1 witness: a cycle without faults has added both documents of its batch
C1_Witness ==
  /\ lastOp = "process" /\ faults = {} /\ ret = 2
  /\ rawStore = fetched /\ Len(parsedStore) = 2

\* the test of the specification: neither the id nor the url of the document
\* equals that of a document of the store
IsNewIn(d, store) ==
  \A k \in 1..Len(store) : store[k].infoid # d.infoid /\ store[k].infourl # d.infourl

\* C2: the documents a cycle classifies as new are exactly the fetched
\* documents of which neither the infoid nor the infourl equals that of a
\* document already in rawStore (the store being read without a fault).
C2_DisjunctiveIdentity ==
  [][(ProcessStep /\ "load_raw" \notin faults')
       => new_items' = SelectSeq(fetched', LAMBDA d : IsNewIn(d, rawStore))]_vars

\* C2 witness: one fetched document was excluded on its infoid alone and
\* another on its infourl alone
C2_Witness ==
  /\ lastOp = "process" /\ faults = {} /\ nfaults = 0
  /\ \E d \in Range(fetched) :
       /\ d \notin Range(new_items)
       /\ \E e \in Range(rawStore) : e.infoid = d.infoid
       /\ \A e \in Range(rawStore) : e.infourl # d.infourl
  /\ \E d \in Range(fetched) :
       /\ d \notin Range(new_items)
       /\ \E e \in Range(rawStore) : e.infourl = d.infourl
       /\ \A e \in Range(rawStore) : e.infoid # d.infoid

DistinctIdentities(batch) ==
  \A i, j \in 1..Len(batch) :
    i # j => batch[i].infoid # batch[j].infoid /\ batch[i].infourl # batch[j].infourl

PosIn(s, x) == CHOOSE k \in 1..Len(s) : s[k] = x

\* the entries of s are entries of b and stand in the order they have in b
InOrderOf(s, b) ==
  /\ Range(s) \subseteq Range(b)
  /\ \A i, j \in 1..Len(s) : i < j => PosIn(b, s[i]) < PosIn(b, s[j])

\* C3: after a cycle over a batch of distinct identities that found ret > 0 new
\* documents, the last ret entries of parsedStore (its write succeeding) and of
\* rawStore (its write succeeding) carry the ids of the new documents in the
\* order of the batch.
C3_OrderPreserved ==
  (lastOp = "process" /\ ret > 0 /\ DistinctIdentities(fetched))
    => /\ Len(new_items) = ret
       /\ InOrderOf(IdsOf(new_items), IdsOf(fetched))
       /\ faults \cap {"save_parsed", "write_parsed"} = {}
            => /\ Len(parsedStore) >= ret
               /\ IdsOf(LastN(parsedStore, ret)) = IdsOf(new_items)
       /\ faults \cap {"save_raw", "write_raw"} = {}
            => /\ Len(rawStore) >= ret
               /\ LastN(rawStore, ret) = new_items

\* C3 witness: two new documents, fetched in the order id2, id1, were appended
C3_Witness ==
  /\ lastOp = "process" /\ ret = 2 /\ faults = {} /\ DistinctIdentities(fetched)
  /\ IdsOf(fetched) = <<"id2", "id1">>
  /\ IdsOf(parsedStore) = <<"id2", "id1">> /\ IdsOf(rawStore) = <<"id2", "id1">>

\* C4: after a bulk re-extraction without a persistence fault parsedStore holds
\* one record per document of rawStore, the i-th being the record of the i-th
\* document, whatever parsedStore held before.
C4_ReparseReplaces ==
  (lastOp = "reparse" /\ faults = {})
    => /\ Len(parsedStore) = Len(rawStore)
       /\ \A i \in 1..Len(rawStore) :
            /\ parsedStore[i].infoid = rawStore[i].infoid
            /\ parsedStore[i] = ParsedRecord(variant, rawStore[i])

\* C4 witness: re-extraction ran over two documents when parsedStore did not
\* match rawStore (a record missing, stale or surplus)
C4_Witness ==
  /\ lastOp = "reparse" /\ faults = {} /\ ~wasAligned /\ Len(rawStore) = 2

\* C5: no two entries of parsedStore share an infoid.
C5_AtMostOneRecord ==
  \A i, j \in 1..Len(parsedStore) :
    i # j => parsedStore[i].infoid # parsedStore[j].infoid

\* C6: the records send_notifications hands to the renderer are those of the
\* documents the cycle classified as new, each once; stated here for the
\* behaviours without any persistence fault.
C6_NotifiedExactlyOnce ==
  (lastOp = "notify" /\ nfaults = 0) => IdsOf(sent) = IdsOf(new_items)

\* C7: when send_notifications is about to run after a cycle that recorded
\* latest_new_count = n, the last n entries of parsedStore are the records of
\* the n documents the cycle classified as new, in order.
C7_NewSuffix ==
  pc = "notify"
    => /\ Len(parsedStore) >= latest_new_count
       /\ LastN(parsedStore, latest_new_count) = Reparsed(variant, new_items)

\* C8: a cycle in which the write of rawStore fails returns no positive
\* new-count and leaves parsedStore unmodified.
C8_SaveFaultAborts ==
  [][(ProcessStep /\ faults' \cap {"save_raw", "write_raw"} # {})
       => (ret' = 0 /\ parsedStore' = parsedStore)]_vars

\* C9: the rawStore before a cycle is a prefix of the rawStore after it.
C9_RawNeverDeleted ==
  [][ProcessStep => IsPrefix(rawStore, rawStore')]_vars
(***************************************************************************)
(* _parse_html_content of houxuan.py, step by step, on one item.          *)
(***************************************************************************)
RowSamples ==
  { <<"H_NAME", "CO_A", "CO_B">>,    \* header row that holds the candidates
    <<"H_NAME">>,                    \* header row followed by the candidate row
    <<"CO_A", "INST", "CO_A">>,      \* a candidate row
    <<"H_PRICE", "P1", "P2">>,       \* a price row
    <<"H_RANK", "R1", "R2">>,        \* a rank header row
    <<"R1", "CO_B", "SLASH">>,       \* a row led by a rank
    <<"AGENT", "CO_C">>,             \* the tendering agent's row
    <<>> }                           \* a row without cells

TableSamples == SeqsUpTo(RowSamples, MaxRows)

\* a first table without a header row, before a one-row or empty table
TablesSamples ==
  {<<>>} \cup {<<t>> : t \in TableSamples}
         \cup {<< <<<<"AGENT", "CO_C">>>>, t >> : t \in SeqsUpTo(RowSamples, 1)}

Hit(names) == [hit |-> TRUE, names |-> names]

TextSamples ==
  { NoText,
    [NoText EXCEPT !.ranked = <<"CO_B", "CO_B">>,
                   !.labelled = [hit |-> TRUE, values |-> <<"P1">>]],
    [NoText EXCEPT !.named = Hit(<<"CO_A", "CO_B">>), !.rates = <<"P2">>],
    [NoText EXCEPT !.unordered = Hit(<<"CO_C">>), !.amounts = <<"P1", "P2">>],
    [NoText EXCEPT !.companies = <<"CO_C", "INST", "CO_C">>] }

\* the table whose header row names a bidder-name column and a price column
\* (hou xuan ren ming cheng | bao jia) and whose data row holds a company and an
\* amount; every test of the code gives on these texts what it gives on the
\* tokens used here
ExampleTable == << <<"H_NAME", "H_PRICE">>, <<"CO_A", "P1">> >>

\* what method 2 finds in the text of that document: the price label followed
\* by the amount when the cells' texts follow each other directly, by no amount
\* when they stand on lines of their own
ExampleTexts ==
  { [NoText EXCEPT !.labelled = [hit |-> TRUE, values |-> <<"P1">>]],
    [NoText EXCEPT !.labelled = [hit |-> TRUE, values |-> <<>>]] }

ExampleItems ==
  { [infoid |-> "id1", infourl |-> "/u1", customtitle |-> "TITLE_GONGSHI",
     infocontent |-> [tables |-> <<ExampleTable>>, pub |-> "PERIOD", text |-> x]] :
      x \in ExampleTexts }

ExtractItems ==
  { [infoid |-> "id1", infourl |-> u, customtitle |-> IF u = "/u1" THEN "TITLE_GONGSHI" ELSE "",
     infocontent |-> [tables |-> ts, pub |-> "PERIOD", text |-> x]] :
      u \in {"/u1", "http://host/u9"}, ts \in TablesSamples, x \in TextSamples }
  \cup ExampleItems

InitExtract ==
  /\ InitOf("houxuan")
  /\ xItem \in ExtractItems
  /\ xStage = "method1"
  /\ xBap = <<>>
  /\ xTable = <<>>
  /\ xResult = "none"

\* houxuan.py 150-239: the title, the publicity period and method 1
XMethod1 ==
  /\ xStage = "method1"
  /\ LET m1 == Method1(xItem.infocontent)
     IN IF m1.exc
        THEN xStage' = "except" /\ UNCHANGED <<xBap, xTable>>
        ELSE xStage' = "method2" /\ xBap' = m1.bap /\ xTable' = m1.bap
  /\ UNCHANGED <<xItem, xResult>>
  /\ UNCHANGED storeVars

\* houxuan.py 241-337
XMethod2 ==
  /\ xStage = "method2"
  /\ xBap' = Method2(xItem.infocontent, xBap)
  /\ xStage' = "supplement"
  /\ UNCHANGED <<xItem, xTable, xResult>>
  /\ UNCHANGED storeVars

\* houxuan.py 339-359
XSupplement ==
  /\ xStage = "supplement"
  /\ xBap' = Supplement(xItem.infocontent, xBap)
  /\ xStage' = "return"
  /\ UNCHANGED <<xItem, xTable, xResult>>
  /\ UNCHANGED storeVars

\* houxuan.py 361-370
XReturn ==
  /\ xStage = "return"
  /\ xResult' = Record(xItem, xBap)
  /\ xStage' = "done"
  /\ UNCHANGED <<xItem, xBap, xTable>>
  /\ UNCHANGED storeVars

\* houxuan.py 372-380
XExcept ==
  /\ xStage = "except"
  /\ xResult' = FailureRecord(xItem)
  /\ xStage' = "done"
  /\ UNCHANGED <<xItem, xBap, xTable>>
  /\ UNCHANGED storeVars

NextExtract == XMethod1 \/ XMethod2 \/ XSupplement \/ XReturn \/ XExcept

\* one call of _parse_html_content of houxuan.py
SpecExtract == InitExtract /\ [][NextExtract]_vars

\* the steps return what the call returns
ExtractOK == xStage = "done" => xResult = ParseHouxuan(xItem)

\* C10: when method 1 (the header table) yields at least one pair, the
\* bidders_and_prices of the returned record is exactly what method 1 yielded.
C10_CascadePriority ==
  (xStage = "done" /\ xTable # <<>>) => xResult.bidders_and_prices = xTable

\* C11: when a locator step raises inside _parse_html_content, the returned
\* record keeps the publicity period already located and the resolved url, and
\* its candidates hold no entry that stands for the failure.
C11_LocatorFaultKeepsRecord ==
  (xStage = "done" /\ Method1(xItem.infocontent).exc)
    => /\ xResult.publicity_period = xItem.infocontent.pub
       /\ xResult.full_url = FullUrl(xItem.infourl)
       /\ \A i \in 1..Len(xResult.bidders_and_prices) :
            xResult.bidders_and_prices[i].bidder # "PARSE_FAILED"

\* the record a document gets when it is ingested alone into empty stores
RecordAlone(v, item) == Cycle(v, <<>>, <<>>, <<item>>, {}).parsed[1]

\* C12: after a cycle without a persistence fault every new document of the
\* batch, whether or not the extraction of another one raised, is at the end of
\* rawStore and has its record at the end of parsedStore, and that record is
\* the one the document gets when ingested alone.
C12_IsolatePerItem ==
  (lastOp = "process" /\ ret > 0 /\ faults = {})
    => /\ Len(new_items) = ret
       /\ Len(rawStore) >= ret /\ LastN(rawStore, ret) = new_items
       /\ Len(parsedStore) >= ret
       /\ \A k \in 1..ret :
            LastN(parsedStore, ret)[k] = RecordAlone(variant, new_items[k])

\* C12 witness: a cycle took in two new documents; the extraction of the first
\* raised, that of the second did not
C12_Witness ==
  /\ lastOp = "process" /\ ret = 2 /\ faults = {} /\ Len(parsedStore) = 2
  /\ ExtractionFaults(new_items[1]) /\ ~ExtractionFaults(new_items[2])
  /\ parsedStore[1].parsed_data = FailureRecord(Data(new_items[1]))
  /\ parsedStore[2].parsed_data.bidders_and_prices[1].bidder = "CO_A"

\* the first header row of the document that method 1 meets: <<k, i>>, row i of
\* table k (<<0, 0>> when no table holds a header row)
FirstHeaderRow(html) ==
  LET ks == {k \in 1..Len(html.tables) :
               \E i \in 1..Len(html.tables[k]) : RowHasHeaderKeyword(html.tables[k][i])}
  IN IF ks = {} THEN <<0, 0>>
     ELSE LET k == CHOOSE a \in ks : \A b \in ks : a <= b
              is == {i \in 1..Len(html.tables[k]) : RowHasHeaderKeyword(html.tables[k][i])}
          IN <<k, CHOOSE a \in is : \A b \in is : a <= b>>

\* the bidders method 1 locates at header row i of rows (houxuan.py 187-207)
LocatedBidders(rows, i) ==
  IF Len(rows[i]) < 3 /\ i = Len(rows) THEN <<>>
  ELSE HeaderCandidates(rows[i], IF Len(rows[i]) < 3 THEN rows[i + 1] ELSE rows[i]).candidates

\* the prices method 1 locates below header row i of rows (houxuan.py 209-225);
\* none when no row below holds a price keyword
LocatedPrices(rows, i) ==
  LET priceRows == {j \in (i + 1)..Len(rows) : RowHasPriceKeyword(rows[j])}
      start_col == IF Len(rows[i]) < 3 /\ i = Len(rows) THEN 0
                   ELSE HeaderCandidates(rows[i], IF Len(rows[i]) < 3 THEN rows[i + 1]
                                                  ELSE rows[i]).start_col
  IN IF priceRows = {} THEN <<>>
     ELSE PriceCells(rows[CHOOSE j \in priceRows : \A k \in priceRows : j <= k], start_col)

\* C13: when method 1 has located b >= 1 bidders and p prices at the first
\* header row, it emits b pairs, the i-th holding the i-th bidder with the i-th
\* price or, from the (p+1)-th on, the text for "not provided" (p = 0 included);
\* and so does method 2 with the bidders and prices it located in the text.
C13_PairingPolicy ==
  /\ (xStage \in {"method2", "supplement", "return", "done"}
        /\ FirstHeaderRow(xItem.infocontent) # <<0, 0>>)
       => LET h == FirstHeaderRow(xItem.infocontent)
              rows == xItem.infocontent.tables[h[1]]
              bidders == LocatedBidders(rows, h[2])
          IN bidders # <<>> => xTable = PairUp(bidders, LocatedPrices(rows, h[2]))
  /\ (xStage = "supplement" /\ xTable = <<>>)
       => xBap = PairUp(TextCandidates(xItem.infocontent), TextPrices(xItem.infocontent))

\* C14: no two entries of the bidders_and_prices of a returned record have the
\* same bidder.
C14_DistinctBidders ==
  xStage = "done"
    => \A i, j \in 1..Len(xResult.bidders_and_prices) :
         i # j => xResult.bidders_and_prices[i].bidder # xResult.bidders_and_prices[j].bidder

\* C15: for the table of a header row naming a bidder-name column and a price
\* column, followed by one data row, method 1 yields the pair of the data row
\* and the record's candidates are what method 1 yielded.
C15_HeaderTableExample ==
  (xStage = "done" /\ xItem \in ExampleItems)
    => /\ xTable = <<Pair("CO_A", "P1")>>
       /\ xResult.bidders_and_prices = xTable

\* C16: as long as no persistence fault has happened, rawStore and parsedStore
\* have the same length and the i-th record carries the infoid and the infourl
\* of the i-th document.
C16_StoresAligned ==
  nfaults = 0
    => /\ Len(parsedStore) = Len(rawStore)
       /\ \A i \in 1..Len(rawStore) :
            /\ parsedStore[i].infoid = rawStore[i].infoid
            /\ parsedStore[i].infourl = rawStore[i].infourl

\* C16 witness: without any fault, a cycle has appended a second document to
\* the stores after an earlier run had stored the first
C16_Witness ==
  /\ nfaults = 0 /\ lastOp = "process" /\ ret = 1
  /\ Len(rawStore) = 2 /\ Len(parsedStore) = 2
  /\ rawStore[1].infoid # rawStore[2].infoid
  /\ parsedStore[2].infourl = rawStore[2].infourl

(***************************************************************************)
(* One BidMonitor used for several cycles: a caller that keeps the        *)
(* instance, calls process_and_store_data again and again, and may call   *)
(* send_notifications after any of the calls.                             *)
(***************************************************************************)
\* the caller goes on to call send_notifications after a cycle
CallNotify ==
  /\ pc = "done" /\ lastOp = "process"
  /\ pc' = "notify"
  /\ UNCHANGED <<variant, rawStore, parsedStore, latest_new_count, lastOp, fetched,
                 new_items, ret, faults, sent, nfaults, wasAligned>>
  /\ UNCHANGED extractVars

\* the caller turns to the next cycle on the same instance: latest_new_count
\* stays as the instance holds it
Again ==
  /\ pc \in {"notify", "done"}
  /\ pc' = "start"
  /\ lastOp' = "none"
  /\ fetched' = <<>>
  /\ new_items' = <<>>
  /\ ret' = 0
  /\ faults' = {}
  /\ sent' = <<>>
  /\ wasAligned' = TRUE
  /\ UNCHANGED <<variant, rawStore, parsedStore, latest_new_count, nfaults>>
  /\ UNCHANGED extractVars

NextReuse == Process \/ CallNotify \/ Notify \/ Again

\* the cycles of one instance of houxuan.py's BidMonitor
SpecReuse == Init /\ [][NextReuse]_vars

\* C17: after a call of process_and_store_data latest_new_count is the value
\* the call returned, and a send_notifications that follows a call which
\* returned 0 hands nothing to the sender.
C17_NewCountFresh ==
  /\ lastOp \in {"process", "notify"} => latest_new_count = ret
  /\ (lastOp = "notify" /\ ret = 0) => sent = <<>>
====
